---- MODULE Spec2Model ----
(***************************************************************************)
(* AbstractHTTPMiddleware (src/src/starlette_abstract/middleware.py).      *)
(*                                                                         *)
(* One request handled by AbstractHTTPMiddleware.__call__.  Two tasks      *)
(* share one thread: the host task (__call__, the dispatch logic,          *)
(* call_next, body_stream and the transmission of the final response) and  *)
(* the background task coro() that runs the downstream handler.  Every     *)
(* action is the code one task runs between two suspension points.         *)
(* The memory object stream has max_buffer_size 0: an item moves from the  *)
(* sender to the receiver only by a direct hand-over.                      *)
(***************************************************************************)
EXTENDS Integers, Sequences, FiniteSets, TLC

\* ------------------------------------------------------------------ bounds
\* most messages one handler run hands to the channel
MaxMsgs == 3

\* ------------------------------------------------------------ value spaces
NoExc == "None"
\* faults the downstream handler raises; all are instances of Exception
HandlerFaults == {"E1", "E2"}
DispatchError == "DispatchError"
TransportError == "TransportError"
AssertionError == "AssertionError"
BrokenResourceError == "BrokenResourceError"
NotImplementedError == "NotImplementedError"

ScopeTypes == {"http", "websocket"}

H0 == <<>>
H1 == << <<"content-type", "text/plain">> >>

\* bytes are sequences of small integers
B1 == <<1>>
B2 == <<2, 3>>

NoMsg ==
    [type |-> "none", status |-> 0, headers |-> H0,
     has_body |-> FALSE, body |-> <<>>, more_body |-> FALSE]

StartMsg(s, h) ==
    [type |-> "http.response.start", status |-> s, headers |-> h,
     has_body |-> FALSE, body |-> <<>>, more_body |-> FALSE]

\* has_body = FALSE is a body message without the "body" key
BodyMsg(hb, b, more) ==
    [type |-> "http.response.body", status |-> 0, headers |-> H0,
     has_body |-> hb, body |-> b, more_body |-> more]

StartMsgs == {StartMsg(200, H1), StartMsg(404, H0)}

BodyMsgs ==
    {BodyMsg(TRUE, B1, TRUE), BodyMsg(TRUE, B2, TRUE),
     BodyMsg(TRUE, B2, FALSE), BodyMsg(FALSE, <<>>, FALSE)}

\* what a handler may pass to send_stream.send
Messages == StartMsgs \cup BodyMsgs

NoResponse ==
    [kind |-> "none", status |-> 0, headers |-> H0, content |-> ""]

\* StreamingResponse(status_code=message["status"], content=body_stream())
\* followed by response.raw_headers = message["headers"]
StreamingResponse(message) ==
    [kind |-> "streaming", status |-> message.status,
     headers |-> message.headers, content |-> ""]

_client_closed_connection ==
    [kind |-> "plain", status |-> 499, headers |-> H0,
     content |-> "Client closed connection"]

_client_is_connected_not_response_error ==
    [kind |-> "json", status |-> 500, headers |-> H0,
     content |-> "{\"errors\":[{\"message\":\"something went wrong\"}]}"]

\* a response the dispatch logic builds by itself
OwnResponse ==
    [kind |-> "own", status |-> 204, headers |-> H0, content |-> ""]

\* variant: the pass-through hands the application wrapped callables
PassthroughArgsWrapped(st) ==
    [scope |-> st, receive |-> "request.receive", send |-> "send_stream.send"]

\* the argument triples self.app is called with
PassthroughArgs(st) ==
    [scope |-> st, receive |-> "receive", send |-> "send"]

\* variant: coro hands the handler the transport's own send
CoroArgsRawSend(st) ==
    [scope |-> st, receive |-> "request.receive", send |-> "send"]

\* line 40-42: self.app(scope, request.receive, send_stream.send)
CoroArgs(st) ==
    [scope |-> st, receive |-> "request.receive", send |-> "send_stream.send"]

\* ------------------------------------------------------------------- state
VARIABLES
    scope_type,       \* scope["type"]
    main_pc,          \* position of the host task
    outcome,          \* exception propagating out of the task group body
    result,           \* how __call__ ended: "none", "returned" or exception
    request_created,  \* Request(scope, receive=receive) was built
    dispatch_called,  \* self.dispatch_func was called
    channel_created,  \* anyio.create_memory_object_stream() was called
    app_calls,        \* argument triples self.app was called with
    hpc,              \* position of the background task
    hcur,             \* item of the sender waiting in the channel
    hsent,            \* messages whose send completed, in order
    hend,             \* how the background task ended
    hfault,           \* the exception the handler raised
    app_exc,          \* the nonlocal app_exc of call_next
    exc_writes,       \* number of assignments to app_exc by coro
    child_exc,        \* exception that left coro into the task group
    send_open,        \* send_stream is open
    recv_open,        \* recv_stream is open
    send_closes,      \* number of times send_stream was closed
    recv_waiting,     \* the receiver is parked in waiting_receivers
    recv_item,        \* the container handed to the parked receiver
    cancelled,        \* task_group.cancel_scope is cancelled
    cn_state,         \* call_next: "none", "running", "returned", "raised"
    cn_exc,           \* the exception call_next raised
    response,         \* the response call_next returned
    final,            \* the response the dispatch logic returned
    received,         \* messages recv_stream.receive() returned, in order
    yielded,          \* byte chunks body_stream yielded, in order
    drainer,          \* who iterates body_stream: "dispatch" | "transport"
    drain_end,        \* how body_stream ended
    transport,        \* messages written to the transport's send
    queried,          \* request.is_disconnected() was awaited
    answer,           \* what request.is_disconnected() returned
    raised,           \* exceptions re-raised from app_exc, in order
    dexc              \* the exception the dispatch logic is handling

vars ==
    <<scope_type, main_pc, outcome, result, request_created, dispatch_called,
      channel_created, app_calls, hpc, hcur, hsent, hend, hfault, app_exc,
      exc_writes, child_exc, send_open, recv_open, send_closes, recv_waiting, recv_item,
      cancelled, cn_state, cn_exc, response, final, received, yielded,
      drainer, drain_end, transport, queried, answer, raised, dexc>>

mainVars == <<main_pc, outcome, result>>
setupVars == <<scope_type, request_created, dispatch_called>>
handlerVars == <<hpc, hcur, hsent, hend, hfault>>
excVars == <<app_exc, exc_writes, child_exc>>
chanVars == <<send_open, recv_open, send_closes, recv_waiting, recv_item>>
cnVars == <<cn_state, cn_exc, response>>
bodyVars == <<received, yielded, drainer, drain_end>>
queryVars == <<queried, answer>>

Init ==
    /\ scope_type \in ScopeTypes
    /\ main_pc = "init"
    /\ outcome = NoExc
    /\ result = "none"
    /\ request_created = FALSE
    /\ dispatch_called = FALSE
    /\ channel_created = FALSE
    /\ app_calls = <<>>
    /\ hpc = "none"
    /\ hcur = NoMsg
    /\ hsent = <<>>
    /\ hend = "none"
    /\ hfault = NoExc
    /\ app_exc = NoExc
    /\ exc_writes = 0
    /\ child_exc = NoExc
    /\ send_open = FALSE
    /\ recv_open = FALSE
    /\ send_closes = 0
    /\ recv_waiting = FALSE
    /\ recv_item = NoMsg
    /\ cancelled = FALSE
    /\ cn_state = "none"
    /\ cn_exc = NoExc
    /\ response = NoResponse
    /\ final = NoResponse
    /\ received = <<>>
    /\ yielded = <<>>
    /\ drainer = "none"
    /\ drain_end = "none"
    /\ transport = <<>>
    /\ queried = FALSE
    /\ answer = FALSE
    /\ raised = <<>>
    /\ dexc = NoExc

\* ---------------------------------------------------- __call__, lines 24-29
\* scope["type"] != "http": await self.app(scope, receive, send); return
CallPassthrough ==
    /\ main_pc = "init"
    /\ scope_type # "http"
    /\ app_calls' = Append(app_calls, PassthroughArgs(scope_type))
    /\ main_pc' = "passthrough"
    /\ UNCHANGED <<outcome, result, setupVars, channel_created, handlerVars,
                   excVars, chanVars, cancelled, cnVars, final, bodyVars,
                   transport, queryVars, raised, dexc>>

\* the awaited application returns or raises; __call__ does the same
PassthroughDone(e) ==
    /\ main_pc = "passthrough"
    /\ main_pc' = "done"
    /\ result' = IF e = NoExc THEN "returned" ELSE e
    /\ UNCHANGED <<outcome, setupVars, channel_created, app_calls,
                   handlerVars, excVars, chanVars, cancelled, cnVars, final,
                   bodyVars, transport, queryVars, raised, dexc>>

\* variant: __call__ creates the stream pair and starts the handler itself
CallHttpEager ==
    /\ main_pc = "init"
    /\ scope_type = "http"
    /\ request_created' = TRUE
    /\ dispatch_called' = TRUE
    /\ channel_created' = TRUE
    /\ send_open' = TRUE
    /\ recv_open' = TRUE
    /\ hpc' = "scheduled"
    /\ main_pc' = "dispatch"
    /\ UNCHANGED <<outcome, result, scope_type, app_calls, hcur, hsent, hend,
                   hfault, excVars, send_closes, recv_waiting, recv_item,
                   cancelled, cnVars, final, bodyVars, transport, queryVars,
                   raised, dexc>>

\* lines 80-82: enter the task group, build the Request, call dispatch_func
CallHttp ==
    /\ main_pc = "init"
    /\ scope_type = "http"
    /\ request_created' = TRUE
    /\ dispatch_called' = TRUE
    /\ main_pc' = "dispatch"
    /\ UNCHANGED <<outcome, result, scope_type, channel_created, app_calls,
                   handlerVars, excVars, chanVars, cancelled, cnVars, final,
                   bodyVars, transport, queryVars, raised, dexc>>

\* variant: coro runs the handler outside "async with send_stream"
CloseSendMissing == UNCHANGED chanVars

\* ------------------------------------------- memory object stream, line 33
\* MemoryObjectSendStream.close() on leaving "async with send_stream"
\* (line 38): the last sender is gone, every parked receiver is woken with
\* an empty container
CloseSend ==
    /\ send_open' = FALSE
    /\ send_closes' = send_closes + 1
    /\ recv_waiting' = FALSE
    /\ UNCHANGED <<recv_open, recv_item>>

\* variant: "except Exception: pass"
CoroExceptSwallow(e) == UNCHANGED excVars

\* variant: coro without the try/except of lines 39-44
CoroExceptEscape(e) ==
    /\ child_exc' = e
    /\ UNCHANGED <<app_exc, exc_writes>>

\* lines 43-44: except Exception as exc: app_exc = exc
CoroExcept(e) ==
    /\ app_exc' = e
    /\ exc_writes' = exc_writes + 1
    /\ UNCHANGED child_exc

\* ------------------------------------------------------ coro, lines 35-44
\* the task started by start_soon runs: it enters "async with send_stream"
\* and calls self.app(scope, request.receive, send_stream.send)
CoroStart ==
    /\ hpc = "scheduled"
    /\ hpc' = "ready"
    /\ app_calls' = Append(app_calls, CoroArgs(scope_type))
    /\ UNCHANGED <<mainVars, setupVars, channel_created, hcur, hsent, hend,
                   hfault, excVars, chanVars, cancelled, cnVars, final,
                   bodyVars, transport, queryVars, raised, dexc>>

\* variant: the item is passed with send_nowait and WouldBlock is ignored
HandlerSendNowait(m) ==
    /\ hpc = "ready"
    /\ ~cancelled
    /\ recv_open
    /\ Len(hsent) < MaxMsgs
    /\ hsent' = Append(hsent, m)
    /\ IF recv_waiting
       THEN /\ recv_item' = m
            /\ recv_waiting' = FALSE
       ELSE UNCHANGED <<recv_item, recv_waiting>>
    /\ UNCHANGED <<mainVars, setupVars, channel_created, app_calls, hpc,
                   hcur, hend, hfault, excVars, send_open, recv_open,
                   send_closes, cancelled, cnVars, final, bodyVars,
                   transport, queryVars, raised, dexc>>

\* the handler awaits send_stream.send(m), line 41: with a parked receiver
\* the item is handed over and the handler goes on, otherwise the handler
\* parks in waiting_senders
HandlerSend(m) ==
    /\ hpc = "ready"
    /\ ~cancelled
    /\ recv_open
    /\ Len(hsent) < MaxMsgs
    /\ IF recv_waiting
       THEN /\ recv_item' = m
            /\ recv_waiting' = FALSE
            /\ hsent' = Append(hsent, m)
            /\ UNCHANGED <<hpc, hcur>>
       ELSE /\ hcur' = m
            /\ hpc' = "blocked_send"
            /\ UNCHANGED <<hsent, recv_item, recv_waiting>>
    /\ UNCHANGED <<mainVars, setupVars, channel_created, app_calls, hend,
                   hfault, excVars, send_open, recv_open, send_closes,
                   cancelled, cnVars, final, bodyVars, transport, queryVars,
                   raised, dexc>>

\* send on a stream whose receiving half is closed raises
\* BrokenResourceError inside the handler, at the call or while parked; the
\* handler lets it propagate and coro records it (lines 43-44)
HandlerSendBroken ==
    /\ \/ hpc = "ready" /\ ~cancelled
       \/ hpc = "blocked_send"
    /\ channel_created
    /\ ~recv_open
    /\ hpc' = "done"
    /\ hcur' = NoMsg
    /\ hend' = "broken"
    /\ hfault' = BrokenResourceError
    /\ CoroExcept(BrokenResourceError)
    /\ CloseSend
    /\ UNCHANGED <<mainVars, setupVars, channel_created, app_calls, hsent,
                   cancelled, cnVars, final, bodyVars, transport, queryVars,
                   raised, dexc>>

\* the handler returns: "async with send_stream" closes the stream
HandlerReturn ==
    /\ hpc = "ready"
    /\ hpc' = "done"
    /\ hend' = "return"
    /\ CloseSend
    /\ UNCHANGED <<mainVars, setupVars, channel_created, app_calls, hcur,
                   hsent, hfault, excVars, cancelled, cnVars, final,
                   bodyVars, transport, queryVars, raised, dexc>>

\* variant: the stream is closed first and app_exc is assigned afterwards
HandlerRaiseCloseFirst(e) ==
    /\ \/ /\ hpc = "ready"
          /\ hpc' = "closing"
          /\ hend' = "raise"
          /\ hfault' = e
          /\ CloseSend
          /\ UNCHANGED excVars
       \/ /\ hpc = "closing"
          /\ e = hfault
          /\ hpc' = "done"
          /\ CoroExcept(e)
          /\ UNCHANGED <<hend, hfault, chanVars>>
    /\ UNCHANGED <<mainVars, setupVars, channel_created, app_calls, hcur,
                   hsent, cancelled, cnVars, final, bodyVars, transport,
                   queryVars, raised, dexc>>

\* the handler raises e: app_exc = exc (line 44), then the stream closes
HandlerRaise(e) ==
    /\ hpc = "ready"
    /\ hpc' = "done"
    /\ hend' = "raise"
    /\ hfault' = e
    /\ CoroExcept(e)
    /\ CloseSend
    /\ UNCHANGED <<mainVars, setupVars, channel_created, app_calls, hcur,
                   hsent, cancelled, cnVars, final, bodyVars, transport,
                   queryVars, raised, dexc>>

\* the handler awaits request.receive (its input source)
HandlerWait ==
    /\ hpc = "ready"
    /\ hpc' = "waiting_input"
    /\ UNCHANGED <<mainVars, setupVars, channel_created, app_calls, hcur,
                   hsent, hend, hfault, excVars, chanVars, cancelled, cnVars,
                   final, bodyVars, transport, queryVars, raised, dexc>>

\* an input message arrives and the handler goes on
HandlerInput ==
    /\ hpc = "waiting_input"
    /\ ~cancelled
    /\ hpc' = "ready"
    /\ UNCHANGED <<mainVars, setupVars, channel_created, app_calls, hcur,
                   hsent, hend, hfault, excVars, chanVars, cancelled, cnVars,
                   final, bodyVars, transport, queryVars, raised, dexc>>

\* variant: the stream is closed after the try block instead of by a
\* context manager, so a cancellation skips the close
HandlerCancelledNoClose ==
    /\ cancelled
    /\ \/ hpc = "ready"
       \/ hpc = "blocked_send"
       \/ hpc = "waiting_input"
    /\ hpc' = "done"
    /\ hcur' = NoMsg
    /\ hend' = "cancelled"
    /\ UNCHANGED <<mainVars, setupVars, channel_created, app_calls, hsent,
                   hfault, excVars, chanVars, cancelled, cnVars, final,
                   bodyVars, transport, queryVars, raised, dexc>>

\* variant: coro catches BaseException, so the cancellation is recorded
HandlerCancelledCaught ==
    /\ cancelled
    /\ \/ hpc = "ready"
       \/ hpc = "blocked_send"
       \/ hpc = "waiting_input"
    /\ hpc' = "done"
    /\ hcur' = NoMsg
    /\ hend' = "cancelled"
    /\ CoroExcept("CancelledError")
    /\ CloseSend
    /\ UNCHANGED <<mainVars, setupVars, channel_created, app_calls, hsent,
                   hfault, cancelled, cnVars, final, bodyVars, transport,
                   queryVars, raised, dexc>>

\* the cancelled scope interrupts the handler at a suspension point: at the
\* start of a send, parked in a send, or waiting for input.  CancelledError
\* is not an Exception: line 43 does not catch it, line 38 closes the stream
HandlerCancelled ==
    /\ cancelled
    /\ \/ hpc = "ready"
       \/ hpc = "blocked_send"
       \/ hpc = "waiting_input"
    /\ hpc' = "done"
    /\ hcur' = NoMsg
    /\ hend' = "cancelled"
    /\ CloseSend
    /\ UNCHANGED <<mainVars, setupVars, channel_created, app_calls, hsent,
                   hfault, excVars, cancelled, cnVars, final, bodyVars,
                   transport, queryVars, raised, dexc>>

\* ------------------------------------------------- task group, lines 80-84
\* an exception leaves the body of "async with create_task_group()":
\* __aexit__ cancels the scope and then waits for the child task
RaiseFromBody(e) ==
    /\ outcome' = e
    /\ cancelled' = TRUE
    /\ main_pc' = "tg_exit"

\* the host task is inside the caller-supplied dispatch logic
InDispatch ==
    \/ main_pc \in {"dispatch", "dispatch_got", "dispatch_exc"}
    \/ main_pc = "yielded" /\ drainer = "dispatch"

\* an exception raised by body_stream reaches whoever iterates it
ToDrainer(e) ==
    IF drainer = "dispatch"
    THEN /\ dexc' = e
         /\ main_pc' = "dispatch_exc"
         /\ UNCHANGED <<outcome, cancelled>>
    ELSE /\ RaiseFromBody(e)
         /\ UNCHANGED dexc

\* ------------------------------------------------- call_next, lines 31-78
\* lines 32-49: create the stream pair, start coro, await the first
\* receive(): no sender is parked and the sending half is open, so the
\* receiver parks in waiting_receivers
CallNext ==
    /\ main_pc = "dispatch"
    /\ cn_state = "none"
    /\ channel_created' = TRUE
    /\ send_open' = TRUE
    /\ recv_open' = TRUE
    /\ hpc' = "scheduled"
    /\ cn_state' = "running"
    /\ recv_waiting' = TRUE
    /\ recv_item' = NoMsg
    /\ main_pc' = "cn_wait"
    /\ UNCHANGED <<outcome, result, setupVars, app_calls, hcur, hsent, hend,
                   hfault, excVars, send_closes, cancelled, cn_exc, response,
                   final, bodyVars, transport, queryVars, raised, dexc>>

\* variant: call_next awaits the end of the handler before it goes on
CallNextAfterHandler == ~recv_waiting /\ hpc = "done"

\* the parked first receive() of line 49 can go on once it was woken
CallNextWoken == ~recv_waiting

\* variant: call_next without the assert of line 63
CallNextResumeNoAssert ==
    /\ main_pc = "cn_wait"
    /\ CallNextWoken
    /\ IF recv_item # NoMsg
       THEN /\ received' = Append(received, recv_item)
            /\ recv_item' = NoMsg
            /\ response' = StreamingResponse(recv_item)
            /\ cn_state' = "returned"
            /\ main_pc' = "dispatch_got"
            /\ UNCHANGED <<cn_exc, dexc, raised>>
       ELSE /\ IF app_exc # NoExc
               THEN /\ raised' = Append(raised, app_exc)
                    /\ cn_state' = "raised"
                    /\ cn_exc' = app_exc
                    /\ dexc' = app_exc
                    /\ main_pc' = "dispatch_exc"
               ELSE /\ main_pc' = "cn_query"
                    /\ UNCHANGED <<raised, cn_state, cn_exc, dexc>>
            /\ UNCHANGED <<received, recv_item, response>>
    /\ UNCHANGED <<outcome, result, setupVars, channel_created, app_calls,
                   handlerVars, excVars, send_open, recv_open, send_closes,
                   recv_waiting, cancelled, final, yielded, drainer,
                   drain_end, transport, queryVars>>

\* lines 49-78 after the wake-up: a message (line 63 asserts its type and
\* lines 74-78 build the response) or EndOfStream (lines 50-54)
CallNextResume ==
    /\ main_pc = "cn_wait"
    /\ CallNextWoken
    /\ IF recv_item # NoMsg
       THEN /\ received' = Append(received, recv_item)
            /\ recv_item' = NoMsg
            /\ IF recv_item.type = "http.response.start"
               THEN /\ response' = StreamingResponse(recv_item)
                    /\ cn_state' = "returned"
                    /\ main_pc' = "dispatch_got"
                    /\ UNCHANGED <<cn_exc, dexc>>
               ELSE /\ cn_state' = "raised"
                    /\ cn_exc' = AssertionError
                    /\ dexc' = AssertionError
                    /\ main_pc' = "dispatch_exc"
                    /\ UNCHANGED response
            /\ UNCHANGED raised
       ELSE /\ IF app_exc # NoExc
               THEN /\ raised' = Append(raised, app_exc)
                    /\ cn_state' = "raised"
                    /\ cn_exc' = app_exc
                    /\ dexc' = app_exc
                    /\ main_pc' = "dispatch_exc"
               ELSE /\ main_pc' = "cn_query"
                    /\ UNCHANGED <<raised, cn_state, cn_exc, dexc>>
            /\ UNCHANGED <<received, recv_item, response>>
    /\ UNCHANGED <<outcome, result, setupVars, channel_created, app_calls,
                   handlerVars, excVars, send_open, recv_open, send_closes,
                   recv_waiting, cancelled, final, yielded, drainer,
                   drain_end, transport, queryVars>>

\* variant: the two branches of line 54 are swapped
DisconnectionResponseSwapped(d) ==
    IF d THEN _client_is_connected_not_response_error
         ELSE _client_closed_connection

\* lines 54-61: await request.is_disconnected() and return the fixed response
DisconnectionResponse(d) ==
    IF d THEN _client_closed_connection
         ELSE _client_is_connected_not_response_error

CallNextQuery(d) ==
    /\ main_pc = "cn_query"
    /\ queried' = TRUE
    /\ answer' = d
    /\ response' = DisconnectionResponse(d)
    /\ cn_state' = "returned"
    /\ main_pc' = "dispatch_got"
    /\ UNCHANGED <<outcome, result, setupVars, channel_created, app_calls,
                   handlerVars, excVars, chanVars, cancelled, cn_exc, final,
                   bodyVars, transport, raised, dexc>>

\* --------------------------------------- caller-supplied dispatch, line 82
\* the dispatch logic raises: its own error, the NotImplementedError of the
\* default dispatch (line 89), or the exception it is handling
DispatchRaise(e) ==
    /\ InDispatch
    /\ IF main_pc = "dispatch_exc" THEN e = dexc
       ELSE e \in {DispatchError, NotImplementedError}
    /\ RaiseFromBody(e)
    /\ UNCHANGED <<result, setupVars, channel_created, app_calls,
                   handlerVars, excVars, chanVars, cnVars, final, bodyVars,
                   transport, queryVars, raised, dexc>>

\* the dispatch logic returns a response of its own
DispatchReturnOwn ==
    /\ InDispatch
    /\ final' = OwnResponse
    /\ main_pc' = "respond"
    /\ UNCHANGED <<outcome, result, setupVars, channel_created, app_calls,
                   handlerVars, excVars, chanVars, cancelled, cnVars,
                   bodyVars, transport, queryVars, raised, dexc>>

\* the dispatch logic returns the response it got from call_next
DispatchReturnResponse ==
    /\ main_pc = "dispatch_got" \/ (main_pc = "yielded" /\ drainer = "dispatch")
    /\ final' = response
    /\ main_pc' = "respond"
    /\ UNCHANGED <<outcome, result, setupVars, channel_created, app_calls,
                   handlerVars, excVars, chanVars, cancelled, cnVars,
                   bodyVars, transport, queryVars, raised, dexc>>

\* the dispatch logic iterates response.body_iterator itself, or asks for
\* the next chunk
DispatchDrain ==
    /\ \/ main_pc = "dispatch_got" /\ drainer = "none"
       \/ main_pc = "yielded" /\ drainer = "dispatch"
    /\ response.kind = "streaming"
    /\ drainer' = "dispatch"
    /\ main_pc' = "body_next"
    /\ UNCHANGED <<outcome, result, setupVars, channel_created, app_calls,
                   handlerVars, excVars, chanVars, cancelled, cnVars, final,
                   received, yielded, drain_end, transport, queryVars,
                   raised, dexc>>

\* ---------------------------------------------- body_stream, lines 65-72
\* variant: the yield looks up a key the message does not have
BodyOfWrongKey(message) == <<>>

\* line 69: yield message.get("body", b"")
BodyOf(message) == IF message.has_body THEN message.body ELSE <<>>

\* variant: the iteration stops at the chunk without more_body
BodyMessageStopOnLast(m) ==
    /\ received' = Append(received, m)
    /\ IF m.type = "http.response.body"
       THEN /\ yielded' = Append(yielded, BodyOf(m))
            /\ main_pc' = "yielded"
            /\ recv_open' = m.more_body
            /\ drain_end' = IF m.more_body THEN drain_end ELSE "clean"
            /\ UNCHANGED <<outcome, cancelled, dexc>>
       ELSE /\ recv_open' = FALSE
            /\ drain_end' = AssertionError
            /\ ToDrainer(AssertionError)
            /\ UNCHANGED yielded
    /\ UNCHANGED raised

\* lines 67-69 for one received message: line 68 asserts its type (a
\* failure leaves "async with recv_stream", which closes the receiving
\* half), line 69 yields its bytes
BodyMessage(m) ==
    /\ received' = Append(received, m)
    /\ IF m.type = "http.response.body"
       THEN /\ yielded' = Append(yielded, BodyOf(m))
            /\ main_pc' = "yielded"
            /\ UNCHANGED <<recv_open, drain_end, outcome, cancelled, dexc>>
       ELSE /\ recv_open' = FALSE
            /\ drain_end' = AssertionError
            /\ ToDrainer(AssertionError)
            /\ UNCHANGED yielded
    /\ UNCHANGED raised

\* variant: body_stream without lines 71-72
BodyEndNoRaise ==
    /\ recv_open' = FALSE
    /\ drain_end' = "clean"
    /\ main_pc' = IF drainer = "dispatch" THEN "dispatch_got" ELSE "send_final"
    /\ UNCHANGED <<raised, outcome, cancelled, dexc, received, yielded>>

\* EndOfStream ends the loop of line 67: recv_stream closes (line 66) and
\* lines 71-72 re-raise app_exc
BodyEnd ==
    /\ recv_open' = FALSE
    /\ IF app_exc # NoExc
       THEN /\ raised' = Append(raised, app_exc)
            /\ drain_end' = app_exc
            /\ ToDrainer(app_exc)
       ELSE /\ drain_end' = "clean"
            /\ main_pc' = IF drainer = "dispatch" THEN "dispatch_got"
                          ELSE "send_final"
            /\ UNCHANGED <<raised, outcome, cancelled, dexc>>
    /\ UNCHANGED <<received, yielded>>

\* the iteration asks for the next message, line 67: receive() takes the
\* item of a parked sender (which wakes it), or sees EndOfStream when the
\* sending half is closed, or parks
BodyNext ==
    /\ main_pc = "body_next"
    /\ drain_end = "none"
    /\ IF hcur # NoMsg
       THEN /\ hcur' = NoMsg
            /\ hpc' = "ready"
            /\ hsent' = Append(hsent, hcur)
            /\ BodyMessage(hcur)
            /\ UNCHANGED recv_waiting
       ELSE IF ~send_open
       THEN /\ BodyEnd
            /\ UNCHANGED <<hcur, hpc, hsent, recv_waiting>>
       ELSE /\ recv_waiting' = TRUE
            /\ main_pc' = "body_wait"
            /\ UNCHANGED <<hcur, hpc, hsent, recv_open, received, yielded,
                           drain_end, raised, outcome, cancelled, dexc>>
    /\ UNCHANGED <<result, setupVars, channel_created, app_calls, hend,
                   hfault, excVars, send_open, send_closes, recv_item,
                   cnVars, final, drainer, transport, queryVars>>

\* variant: the woken receive() leaves the item in its container
BodyResumeStale ==
    /\ main_pc = "body_wait"
    /\ ~recv_waiting
    /\ IF recv_item # NoMsg
       THEN BodyMessage(recv_item)
       ELSE BodyEnd
    /\ UNCHANGED recv_item
    /\ UNCHANGED <<result, setupVars, channel_created, app_calls,
                   handlerVars, excVars, send_open, send_closes,
                   recv_waiting, cnVars, final, drainer, transport,
                   queryVars>>

\* the parked receive() of the iteration was woken: by a hand-over or by
\* the close of the sending half
BodyResume ==
    /\ main_pc = "body_wait"
    /\ ~recv_waiting
    /\ IF recv_item # NoMsg
       THEN /\ BodyMessage(recv_item)
            /\ recv_item' = NoMsg
       ELSE /\ BodyEnd
            /\ UNCHANGED recv_item
    /\ UNCHANGED <<result, setupVars, channel_created, app_calls,
                   handlerVars, excVars, send_open, send_closes,
                   recv_waiting, cnVars, final, drainer, transport,
                   queryVars>>

\* iterating a body_stream that already ended yields nothing more
BodyExhausted ==
    /\ main_pc = "body_next"
    /\ drain_end # "none"
    /\ main_pc' = "send_final"
    /\ UNCHANGED <<outcome, result, setupVars, channel_created, app_calls,
                   handlerVars, excVars, chanVars, cancelled, cnVars, final,
                   bodyVars, transport, queryVars, raised, dexc>>

\* ----------------------------- await response(scope, receive, send), line 83
TransportStart(r) ==
    [type |-> "http.response.start", status |-> r.status,
     headers |-> r.headers, body |-> <<>>, content |-> "",
     more_body |-> FALSE]

TransportBody(b, c, more) ==
    [type |-> "http.response.body", status |-> 0, headers |-> H0,
     body |-> b, content |-> c, more_body |-> more]

\* one await send(msg) of the final response: the transport takes the
\* message and the response goes on at pc, or the transport raises
TransportSend(ok, msg, pc) ==
    IF ok
    THEN /\ transport' = Append(transport, msg)
         /\ main_pc' = pc
         /\ UNCHANGED <<outcome, cancelled>>
    ELSE /\ RaiseFromBody(TransportError)
         /\ UNCHANGED transport

\* the response sends http.response.start
RespondStart(ok) ==
    /\ main_pc = "respond"
    /\ TransportSend(ok, TransportStart(final),
                     IF final.kind = "streaming" THEN "body_next"
                     ELSE "send_body")
    /\ drainer' = IF final.kind = "streaming" THEN "transport" ELSE drainer
    /\ UNCHANGED <<result, setupVars, channel_created, app_calls,
                   handlerVars, excVars, chanVars, cnVars, final, received,
                   yielded, drain_end, queryVars, raised, dexc>>

\* a response with a fixed body sends it in one message
RespondBody(ok) ==
    /\ main_pc = "send_body"
    /\ TransportSend(ok, TransportBody(<<>>, final.content, FALSE), "sent")
    /\ UNCHANGED <<result, setupVars, channel_created, app_calls,
                   handlerVars, excVars, chanVars, cnVars, final, bodyVars,
                   queryVars, raised, dexc>>

\* a streaming response sends the chunk body_stream just yielded
RespondChunk(ok) ==
    /\ main_pc = "yielded"
    /\ drainer = "transport"
    /\ TransportSend(ok, TransportBody(yielded[Len(yielded)], "", TRUE),
                     "body_next")
    /\ UNCHANGED <<result, setupVars, channel_created, app_calls,
                   handlerVars, excVars, chanVars, cnVars, final, bodyVars,
                   queryVars, raised, dexc>>

\* a streaming response ends with an empty body message
RespondFinal(ok) ==
    /\ main_pc = "send_final"
    /\ TransportSend(ok, TransportBody(<<>>, "", FALSE), "sent")
    /\ UNCHANGED <<result, setupVars, channel_created, app_calls,
                   handlerVars, excVars, chanVars, cnVars, final, bodyVars,
                   queryVars, raised, dexc>>

\* variant: the scope is cancelled before the response is transmitted
CancelBeforeSend ==
    /\ \/ main_pc = "respond" /\ ~cancelled
       \/ main_pc = "sent"
    /\ cancelled' = TRUE
    /\ main_pc' = IF main_pc = "sent" THEN "tg_exit" ELSE main_pc
    /\ UNCHANGED <<outcome, result, setupVars, channel_created, app_calls,
                   handlerVars, excVars, chanVars, cnVars, final, bodyVars,
                   transport, queryVars, raised, dexc>>

\* line 84: task_group.cancel_scope.cancel()
Cancel ==
    /\ main_pc = "sent"
    /\ cancelled' = TRUE
    /\ main_pc' = "tg_exit"
    /\ UNCHANGED <<outcome, result, setupVars, channel_created, app_calls,
                   handlerVars, excVars, chanVars, cnVars, final, bodyVars,
                   transport, queryVars, raised, dexc>>

\* variant: the handler runs in a task the task group does not own
ChildNotAwaited == TRUE

\* the child task of the task group no longer runs
ChildDone == hpc \in {"none", "done"}

\* leaving "async with create_task_group()", line 80: __aexit__ waits for
\* the child task, then __call__ returns, or raises the exception that left
\* its body or its child
TaskGroupExit ==
    /\ main_pc = "tg_exit"
    /\ ChildDone
    /\ main_pc' = "done"
    /\ result' = IF outcome # NoExc THEN outcome
                  ELSE IF child_exc # NoExc THEN child_exc
                  ELSE "returned"
    /\ UNCHANGED <<outcome, setupVars, channel_created, app_calls,
                   handlerVars, excVars, chanVars, cancelled, cnVars, final,
                   bodyVars, transport, queryVars, raised, dexc>>

Next ==
    \/ CallPassthrough
    \/ \E e \in {NoExc, "E1"} : PassthroughDone(e)
    \/ CallHttp
    \/ CoroStart
    \/ \E m \in Messages : HandlerSend(m)
    \/ HandlerSendBroken
    \/ HandlerReturn
    \/ \E e \in HandlerFaults : HandlerRaise(e)
    \/ HandlerWait
    \/ HandlerInput
    \/ HandlerCancelled
    \/ CallNext
    \/ CallNextResume
    \/ \E d \in BOOLEAN : CallNextQuery(d)
    \/ \E e \in {DispatchError, NotImplementedError} \cup {dexc} :
           DispatchRaise(e)
    \/ DispatchReturnOwn
    \/ DispatchReturnResponse
    \/ DispatchDrain
    \/ BodyNext
    \/ BodyResume
    \/ BodyExhausted
    \/ \E ok \in BOOLEAN : RespondStart(ok)
    \/ \E ok \in BOOLEAN : RespondBody(ok)
    \/ \E ok \in BOOLEAN : RespondChunk(ok)
    \/ \E ok \in BOOLEAN : RespondFinal(ok)
    \/ Cancel
    \/ TaskGroupExit

Spec == Init /\ [][Next]_vars

\* the event loop resumes a task whose receive() was woken
FairSpec ==
    /\ Spec
    /\ WF_vars(CallNextResume)
    /\ WF_vars(BodyResume)

\* ----------------------------------------------------------------- helpers
RECURSIVE Concat(_)
Concat(chunks) ==
    IF chunks = <<>> THEN <<>>
    ELSE Head(chunks) \o Concat(Tail(chunks))

\* one http.response.start followed only by http.response.body messages
WellFormed(msgs) ==
    /\ Len(msgs) >= 1
    /\ msgs[1].type = "http.response.start"
    /\ \A i \in 2..Len(msgs) : msgs[i].type = "http.response.body"

\* the byte sequences of the chunks that follow the start message
SentChunks(msgs) == [i \in 1..(Len(msgs) - 1) |-> msgs[i + 1].body]

HandlerRunning == hpc \in {"ready", "blocked_send", "waiting_input"}

\* body_stream ran to its end
Drained == drain_end # "none"

\* ------------------------------------------------------------------ claims
\* C1: for a well-formed handler run that returns normally, the response
\* call_next returned carries the status and headers of the start message,
\* and its body, once fully drained, is exactly the chunks the handler sent,
\* in order, and ends without an error.
C1_WellFormedRunAssembled ==
    /\ (cn_state = "returned" /\ received # <<>>)
           => /\ response.kind = "streaming"
              /\ response.status = hsent[1].status
              /\ response.headers = hsent[1].headers
    /\ (hend = "return" /\ WellFormed(hsent) /\ Drained)
           => /\ drain_end = "clean"
              /\ yielded = SentChunks(hsent)
              /\ Concat(yielded) = Concat(SentChunks(hsent))
              /\ raised = <<>>

C1_Witness ==
    /\ hend = "return"
    /\ hsent = <<StartMsg(200, H1), BodyMsg(TRUE, B1, TRUE),
                 BodyMsg(TRUE, B2, FALSE)>>
    /\ drain_end = "clean"
    /\ response.status = 200
    /\ Concat(yielded) = <<1, 2, 3>>

\* C2: when the handler raises after the start message and K chunks, the
\* drained body is exactly those K chunks and the iteration ends by raising
\* the handler's exception to whoever drains it.
C2_FaultAfterChunks ==
    (hend = "raise" /\ WellFormed(hsent) /\ Drained)
        => /\ yielded = SentChunks(hsent)
           /\ drain_end = hfault
           /\ hfault \in HandlerFaults
           /\ raised = <<hfault>>
           /\ drainer = "dispatch" => dexc = hfault
           /\ drainer = "transport" => outcome = hfault

C2_Witness ==
    /\ hend = "raise"
    /\ hfault = "E2"
    /\ hsent = <<StartMsg(404, H0), BodyMsg(TRUE, B2, TRUE),
                 BodyMsg(TRUE, B1, TRUE)>>
    /\ yielded = <<B2, B1>>
    /\ drain_end = "E2"

\* C3: when the handler raises before any message, call_next raises that
\* exception; is_disconnected is never awaited and no response is returned.
C3_FaultBeforeAnyMessage ==
    (hend = "raise" /\ hsent = <<>>)
        => /\ ~queried
           /\ main_pc # "cn_query"
           /\ response = NoResponse
           /\ cn_state \in {"running", "raised"}
           /\ cn_state = "running" => main_pc = "cn_wait"
           /\ cn_state = "raised" => cn_exc = hfault /\ raised = <<hfault>>

C3_Witness ==
    /\ hend = "raise"
    /\ hsent = <<>>
    /\ cn_state = "raised"
    /\ cn_exc = "E1"

\* C4: when the handler ends without a message and without an exception,
\* call_next awaits is_disconnected and returns 499 "Client closed
\* connection" when it answers true and the 500 JSON error otherwise.
C4_EmptyRunFallback ==
    (hpc = "done" /\ hfault = NoExc /\ hsent = <<>> /\ main_pc # "cn_wait")
        => /\ main_pc = "cn_query" => cn_state = "running" /\ ~queried
           /\ main_pc # "cn_query"
                  => /\ cn_state = "returned"
                     /\ queried
                     /\ answer
                            => /\ response.status = 499
                               /\ response.content = "Client closed connection"
                     /\ ~answer
                            => /\ response.status = 500
                               /\ response.content =
                                    "{\"errors\":[{\"message\":\"something went wrong\"}]}"

C4_Witness ==
    /\ hend = "return"
    /\ hsent = <<>>
    /\ cn_state = "returned"
    /\ answer
    /\ response.status = 499

\* C5: once __call__ on an http connection has returned or raised, the
\* background task has completed or was cancelled: it never still runs.
C5_NoLeakedTask ==
    (scope_type = "http" /\ main_pc = "done")
        => /\ hpc \in {"none", "done"}
           /\ result # "none"

C5_Witness ==
    /\ main_pc = "done"
    /\ result = DispatchError
    /\ hend = "cancelled"
    /\ hpc = "done"

\* C6: for a connection that is not http the next application is called
\* once with the original scope, receive and send; no channel, task or
\* Request is created and the dispatch logic is not called.
C6_PassthroughUntouched ==
    scope_type # "http"
        => /\ ~channel_created
           /\ hpc = "none"
           /\ ~request_created
           /\ ~dispatch_called
           /\ transport = <<>>
           /\ main_pc = "init" => app_calls = <<>>
           /\ main_pc # "init"
                  => app_calls = << [scope |-> scope_type,
                                     receive |-> "receive",
                                     send |-> "send"] >>

C6_Witness ==
    /\ scope_type = "websocket"
    /\ main_pc = "done"
    /\ Len(app_calls) = 1

\* C7: app_exc is written at most once and, whenever it was set, it has
\* been re-raised (from call_next or from the body iteration) by the time
\* __call__ ends, also when the dispatch logic returns another response or
\* does not drain the body.
C7_FaultSurfaced ==
    /\ exc_writes <= 1
    /\ (main_pc = "done" /\ app_exc # NoExc) => raised = <<app_exc>>

\* C8: once the start message was handed to call_next's receive, call_next
\* can go on whatever the handler does, and its next step returns the
\* streaming response built from that message.
C8_ReturnsOnFirstMessage ==
    [][(main_pc = "cn_wait" /\ recv_item.type = "http.response.start")
           => /\ ENABLED CallNextResume
              /\ main_pc' # main_pc
                     => /\ cn_state' = "returned"
                        /\ response' = [kind |-> "streaming",
                                        status |-> recv_item.status,
                                        headers |-> recv_item.headers,
                                        content |-> ""]]_vars

C8_Witness ==
    /\ cn_state = "returned"
    /\ response.kind = "streaming"
    /\ main_pc = "dispatch_got"
    /\ hpc = "blocked_send"

\* C9: once the background task has ended, a receive parked on the channel
\* (the first one of call_next or one of the body iteration) does not stay
\* parked.
C9_NoReceiveBlockedForever ==
    (hpc = "done" /\ main_pc \in {"cn_wait", "body_wait"})
        ~> (main_pc \notin {"cn_wait", "body_wait"})

C9_Witness ==
    /\ hpc = "done"
    /\ main_pc = "body_wait"
    /\ recv_item = NoMsg
    /\ ~recv_waiting

\* C10: the sending half is closed exactly once per started handler run,
\* on return, on an exception and on cancellation, and never while the
\* handler still runs.
C10_SendClosedExactlyOnce ==
    /\ send_closes <= 1
    /\ hpc = "done" => send_closes = 1 /\ ~send_open
    /\ HandlerRunning => send_closes = 0 /\ send_open
    /\ hpc \in {"none", "scheduled"} => send_closes = 0

C10_Witness ==
    /\ hpc = "done"
    /\ hend = "cancelled"
    /\ send_closes = 1

\* the first n elements of a sequence
Prefix(seq, n) == [i \in 1..n |-> seq[i]]

\* C11: the messages the consumer's receives returned are always a prefix
\* of the messages the handler's sends handed over: none is duplicated,
\* dropped in the middle or reordered.
C11_ReceivedPrefixOfSent ==
    /\ Len(received) <= Len(hsent)
    /\ received = Prefix(hsent, Len(received))

C11_Witness ==
    /\ Len(received) = 3
    /\ received = hsent
    /\ received[2] # received[3]
    /\ HandlerRunning

\* C12: when the first message call_next receives is not a start message,
\* call_next raises at once to the dispatch logic: no response is built,
\* is_disconnected is not awaited and the body is never iterated.
C12_FirstMessageNotStart ==
    (received # <<>> /\ received[1].type # "http.response.start")
        => /\ cn_state = "raised"
           /\ cn_exc = AssertionError
           /\ response = NoResponse
           /\ ~queried
           /\ Len(received) = 1
           /\ yielded = <<>>
           /\ drainer = "none"
           /\ final \in {NoResponse, OwnResponse}
           /\ dexc = AssertionError
           /\ final = NoResponse /\ main_pc = "tg_exit"
                  => outcome = AssertionError

C12_Witness ==
    /\ received = <<BodyMsg(TRUE, B1, TRUE)>>
    /\ cn_state = "raised"
    /\ main_pc = "dispatch_exc"
    /\ dexc = AssertionError

\* the transport got the whole final response: its start message first and
\* a body message without more_body last
ResponseSent ==
    /\ Len(transport) >= 2
    /\ transport[1].type = "http.response.start"
    /\ transport[1].status = final.status
    /\ transport[Len(transport)].type = "http.response.body"
    /\ ~transport[Len(transport)].more_body

\* C13: without an exception the scope is cancelled only once the final
\* response was transmitted completely, whatever the handler's state.  The
\* cancellation changes nothing for a handler that has ended; a running one
\* completes no further send and, when it is interrupted in a send or in an
\* input receive, ends with its sending half closed.
C13_CancelAfterResponse ==
    [][/\ (~cancelled /\ cancelled' /\ outcome' = NoExc)
              => /\ ResponseSent
                 /\ UNCHANGED <<handlerVars, chanVars, transport>>
       /\ hpc = "done" => UNCHANGED handlerVars
       /\ cancelled
              => /\ hsent' = hsent
                 /\ transport' = transport
                 /\ hpc \in {"blocked_send", "waiting_input"}
                        => hpc' \in {hpc, "done"}
                 /\ (HandlerRunning /\ hend' = "cancelled")
                        => /\ hpc' = "done"
                           /\ ~send_open'
                           /\ send_closes' = 1
                           /\ hcur' = NoMsg]_vars

C13_Witness ==
    /\ main_pc = "tg_exit"
    /\ cancelled
    /\ outcome = NoExc
    /\ ResponseSent
    /\ hend = "cancelled"
    /\ ~send_open
    /\ Len(hsent) = 1

\* exceptions that come from the handler's run
FromHandler == HandlerFaults \cup {BrokenResourceError}

\* C14: for an http connection an exception raised in the handler never
\* leaves coro into the task group and is never a channel message: it is
\* stored in app_exc, and when it leaves the task group body or __call__
\* it was re-raised from app_exc by call_next or by the body iteration.
C14_FaultOnlyThroughHolder ==
    /\ child_exc = NoExc
    /\ hfault # NoExc => app_exc = hfault /\ hfault \in FromHandler
    /\ \A i \in 1..Len(received) : received[i] \in Messages
    /\ recv_item \in Messages \cup {NoMsg}
    /\ cn_exc \in FromHandler => raised = <<cn_exc>>
    /\ dexc \in FromHandler => raised = <<dexc>>
    /\ outcome \in FromHandler => raised = <<outcome>>
    /\ (scope_type = "http" /\ result \in FromHandler)
           => raised = <<result>> /\ result = hfault

C14_Witness ==
    /\ main_pc = "done"
    /\ result = "E1"
    /\ hfault = "E1"
    /\ drain_end = "E1"
    /\ drainer = "transport"

\* C15: app_exc is assigned before the sending half closes: in no state
\* has the handler raised, the sending half closed and app_exc stayed
\* empty, so an end-of-stream caused by the handler's exception never takes
\* the is_disconnected path and never ends the body cleanly.
C15_FaultSetBeforeClose ==
    hfault # NoExc
        => /\ ~send_open => app_exc = hfault
           /\ exc_writes = send_closes
           /\ main_pc # "cn_query"
           /\ ~queried
           /\ drain_end # "clean"

C15_Witness ==
    /\ hend = "raise"
    /\ hsent = <<>>
    /\ main_pc = "cn_wait"
    /\ ~recv_waiting
    /\ ~send_open
    /\ app_exc = "E2"

\* C16: a cancellation of the handler task is never stored in app_exc: a
\* cancelled handler leaves app_exc empty, nothing is re-raised from it and
\* __call__ ends as its own body ended.
C16_CancellationNotCaptured ==
    /\ app_exc \in FromHandler \cup {NoExc}
    /\ hend = "cancelled"
           => /\ app_exc = NoExc
              /\ exc_writes = 0
              /\ raised = <<>>
              /\ main_pc = "done"
                     => result = IF outcome = NoExc THEN "returned"
                                 ELSE outcome

C16_Witness ==
    /\ main_pc = "done"
    /\ hend = "cancelled"
    /\ result = "returned"
    /\ app_exc = NoExc
    /\ final = OwnResponse
    /\ Len(hsent) = 1

\* an item handed to the consumer's parked receive() that has not resumed
InFlight == IF recv_item # NoMsg THEN 1 ELSE 0

C18_HandlerStartedByCallNext ==
    (scope_type = "http" /\ cn_state = "none")
        => /\ hpc = "none"
           /\ ~channel_created
           /\ app_calls = <<>>
           /\ hsent = <<>>
           /\ main_pc = "tg_exit" => ENABLED TaskGroupExit
           /\ (main_pc = "done" /\ result = "returned")
                  => /\ final = OwnResponse
                     /\ Len(transport) = 2
                     /\ transport[1].type = "http.response.start"
                     /\ transport[1].status = 204
                     /\ transport[2].type = "http.response.body"
                     /\ ~transport[2].more_body

C18_Witness ==
    /\ scope_type = "http"
    /\ cn_state = "none"
    /\ main_pc = "done"
    /\ result = "returned"
    /\ app_calls = <<>>

\* C19: the body iteration ends only on end-of-stream: when it has ended
\* (cleanly or by re-raising app_exc) the handler task has ended and the
\* sending half is closed, whatever more_body flags the chunks carried.
C19_BodyEndsOnlyAtEndOfStream ==
    /\ (Drained /\ drain_end # AssertionError)
           => hpc = "done" /\ ~send_open
    /\ (drainer = "transport" /\ main_pc \in {"send_final", "sent"})
           => hpc = "done"

C19_Witness ==
    /\ main_pc = "body_wait"
    /\ recv_waiting
    /\ hpc = "waiting_input"
    /\ Len(received) = 2
    /\ ~received[2].more_body
    /\ yielded = <<B2>>

\* C20: on an http connection the handler is called with the sending half
\* of the channel, never with the transport's send; the transport gets
\* messages only from the transmission of the dispatch logic's final
\* response: its start message first, then body messages.
C20_TransportOnlyFromOrchestrator ==
    scope_type = "http"
        => /\ \A i \in 1..Len(app_calls) :
                  /\ app_calls[i].send = "send_stream.send"
                  /\ app_calls[i].send # "send"
           /\ Len(app_calls) <= 1
           /\ transport # <<>>
                  => /\ final # NoResponse
                     /\ main_pc \notin {"init", "dispatch", "cn_wait",
                                        "cn_query", "dispatch_got",
                                        "dispatch_exc", "respond"}
                     /\ transport[1].type = "http.response.start"
                     /\ transport[1].status = final.status
                     /\ transport[1].headers = final.headers
                     /\ \A i \in 2..Len(transport) :
                            transport[i].type = "http.response.body"
           /\ Len(transport) <= Len(yielded) + 2

C20_Witness ==
    /\ main_pc = "done"
    /\ Len(hsent) = 3
    /\ Len(transport) = 4
    /\ app_calls = << [scope |-> "http", receive |-> "request.receive",
                       send |-> "send_stream.send"] >>
====
